---- MODULE Spec2Model ----
(***************************************************************************)
(* Model of blockchainetl_common/streaming/streamer.py: the Streamer       *)
(* synchronisation loop, its checkpoint file ("last synced block file"),   *)
(* the pid file and the adapter lifecycle.                                 *)
(*                                                                         *)
(* One engine process at a time.  Its control position is pc:              *)
(*   "new"      before Streamer.__init__                                   *)
(*   "ready"    constructed, stream() not yet called                       *)
(*   "open"     stream(): about to call adapter.open()                     *)
(*   "loop"     _do_stream(): evaluating the while condition               *)
(*   "head"     _sync_cycle(): about to call get_current_block_number()    *)
(*   "export"   _sync_cycle(): about to call export_all()                  *)
(*   "write"    _sync_cycle(): about to write the checkpoint               *)
(*   "after"    _do_stream(): after the try/except, before the sleep test  *)
(*   "finally"  stream(): finally block, about to call adapter.close()     *)
(*   "returned" stream() returned normally                                 *)
(*   "raised"   stream() raised                                            *)
(*   "ctor_failed"  Streamer.__init__ raised                               *)
(*   "calc" / "calc_done"  used only by SpecCalc (the pure target function)*)
(***************************************************************************)
EXTENDS Integers, Sequences, FiniteSets, TLC

VARIABLES
    cfg,                    \* constructor arguments kept on self
    ckptExists,             \* os.path.isfile(last_synced_block_file)
    ckptText,               \* content of the checkpoint file, a sequence of characters
    ckptValue,              \* the integer last written to the checkpoint file in full, if any
    pidExists,              \* the pid file exists
    head,                   \* the source's current block number (environment)
    pc,                     \* control position of the engine
    last_synced_block,      \* self.last_synced_block
    processed_blocks_count, \* self.processed_blocks_count
    current_block,          \* local of _sync_cycle
    block_batch_size,       \* local of _sync_cycle (effective width)
    target_block,           \* local of _sync_cycle
    blocks_to_sync,         \* local of _sync_cycle
    synced_blocks,          \* local of _do_stream
    exc,                    \* the exception propagating out of stream(), or "none"
    runs,                   \* number of engine processes constructed so far
    h                       \* observation record (call counts, snapshots); never read by the engine

vars == <<cfg, ckptExists, ckptText, ckptValue, pidExists, head, pc, last_synced_block,
          processed_blocks_count, current_block, block_batch_size, target_block,
          blocks_to_sync, synced_blocks, exc, runs, h>>

----------------------------------------------------------------------------
(* Bounds *)

MaxHead == 4
MaxRuns == 2

(* Optional values: None is the empty tuple, a present value a 1-tuple *)
None == <<>>
Some(x) == <<x>>
Val(o) == o[1]

Max(a, b) == IF a >= b THEN a ELSE b
Min(a, b) == IF a <= b THEN a ELSE b

Heads == 0..MaxHead
Lags == {0, 1}
StartBlocks == {None, Some(0), Some(2)}
EndBlocks == {None, Some(1), Some(3)}
BatchSizes == {1, 2}
RampUps == {0, 1}
InitialCheckpoints == {-1, 2}

----------------------------------------------------------------------------
(* Text conversions: str(int), int(str) *)

DigitChar == <<"0", "1", "2", "3", "4", "5", "6", "7", "8", "9">>
DigitChars == {DigitChar[i] : i \in 1..10}
DigitValue(c) == (CHOOSE i \in 1..10 : DigitChar[i] = c) - 1
Whitespace == {"\n", " "}

RECURSIVE Digits(_)
Digits(n) == IF n < 10 THEN <<DigitChar[n + 1]>>
             ELSE Digits(n \div 10) \o <<DigitChar[(n % 10) + 1]>>

\* str(n) of a Python int
Str(n) == IF n < 0 THEN <<"-">> \o Digits(-n) ELSE Digits(n)

RECURSIVE Strip(_)
Strip(s) == IF s = <<>> THEN s
            ELSE IF Head(s) \in Whitespace THEN Strip(Tail(s))
            ELSE IF s[Len(s)] \in Whitespace THEN Strip(SubSeq(s, 1, Len(s) - 1))
            ELSE s

RECURSIVE DigitsValue(_)
DigitsValue(s) == IF s = <<>> THEN 0
                  ELSE 10 * DigitsValue(SubSeq(s, 1, Len(s) - 1)) + DigitValue(s[Len(s)])

AllDigits(s) == s # <<>> /\ \A i \in 1..Len(s) : s[i] \in DigitChars

\* int(text): [ok |-> FALSE] stands for ValueError
ParseInt(text) ==
    LET s == Strip(text)
        body == IF s # <<>> /\ Head(s) \in {"-", "+"} THEN Tail(s) ELSE s
    IN IF AllDigits(body)
       THEN [ok |-> TRUE,
             val |-> IF Head(s) = "-" THEN 0 - DigitsValue(body) ELSE DigitsValue(body)]
       ELSE [ok |-> FALSE, val |-> 0]

\* the content write_last_synced_block() writes
CheckpointRecord(n) == Str(n) \o <<"\n">>

\* read_last_synced_block()
read_last_synced_block(text) == ParseInt(text)

----------------------------------------------------------------------------
(* Observation record *)

NoExport == [from |-> 0, to |-> 0, called |-> FALSE, returned |-> FALSE]
NoPrev == [valid |-> FALSE, err |-> "none", from |-> 0, head |-> None, range |-> None,
           synced |-> 0]

HInit == [opens |-> 0,            \* adapter.open() calls of this stream() invocation
          opened |-> FALSE,       \* open() has returned successfully
          closes |-> 0,           \* adapter.close() calls of this stream() invocation
          callsBeforeOpen |-> 0,  \* head/export calls made before open() returned
          callsAfterClose |-> 0,  \* head/export calls made after close() was called
          queried |-> FALSE,      \* a head query happened in this invocation
          exported |-> FALSE,     \* an export call happened in this invocation
          wrote |-> FALSE,        \* a checkpoint write was attempted in this invocation
          cycled |-> FALSE,       \* a cycle was started in this invocation
          sleeps |-> 0,           \* sleeps since the last cycle ended
          sleptBefore |-> 0,      \* sleeps between the previous cycle and the current one
          slept |-> FALSE,        \* a sleep happened in this invocation
          widened |-> FALSE,      \* an earlier cycle of this run used a width above 1
          initial |-> 0,          \* last_synced_block when stream() was called
          seeded |-> FALSE,       \* the constructor wrote the checkpoint file
          preText |-> <<>>,       \* checkpoint file as the constructor found it
          preExists |-> FALSE,
          cycleText |-> <<>>,     \* checkpoint file, lastSynced, processed at cycle start
          cycleLast |-> 0,
          cycleProcessed |-> 0,
          cycleErr |-> "none",    \* the error raised inside the current/last cycle
          export |-> NoExport,    \* the export call of the current cycle
          prev |-> NoPrev]        \* the previous cycle of this invocation

----------------------------------------------------------------------------
(* Streamer.__init__ *)

Configs == [lag : Lags, start_block : StartBlocks, end_block : EndBlocks,
            block_batch_size : BatchSizes, ramp_up_blocks : RampUps,
            retry_errors : BOOLEAN, pid_file : BOOLEAN]

\* Python truthiness of "x or 0" for an optional int
OrZero(o) == IF o = None THEN 0 ELSE IF Val(o) = 0 THEN 0 ELSE Val(o)

\* mutant: the seed is the start block itself
SeedValue_NoOffset(start_block) == OrZero(start_block)

\* mutant: the offset is applied twice
SeedValue_DoubleOffset(start_block) == OrZero(start_block) - 2

\* the value the constructor passes to init_last_synced_block_file
SeedValue(start_block) == OrZero(start_block) - 1

\* mutant: the test uses the truthiness of start_block
NeedsInit_Truthy(start_block, exists) == (start_block # None /\ Val(start_block) # 0) \/ ~exists

\* the constructor's test for calling init_last_synced_block_file
NeedsInit(start_block, exists) == start_block # None \/ ~exists

Init ==
    /\ cfg \in Configs
    /\ ckptExists \in BOOLEAN
    /\ \E c \in InitialCheckpoints :
          /\ ckptText = IF ckptExists THEN CheckpointRecord(c) ELSE <<>>
          /\ ckptValue = IF ckptExists THEN Some(c) ELSE None
    /\ pidExists = FALSE
    /\ head \in Heads
    /\ pc = "new"
    /\ last_synced_block = 0
    /\ processed_blocks_count = 0
    /\ current_block = 0
    /\ block_batch_size = 0
    /\ target_block = 0
    /\ blocks_to_sync = 0
    /\ synced_blocks = 0
    /\ exc = "none"
    /\ runs = 1
    /\ h = HInit

EngineLocals == <<current_block, block_batch_size, target_block, blocks_to_sync, synced_blocks>>

\* Streamer.__init__ when the checkpoint write (if any) succeeds
StreamerInit ==
    /\ pc = "new"
    /\ processed_blocks_count' = 0
    /\ IF NeedsInit(cfg.start_block, ckptExists)
       THEN IF ckptExists
            THEN \* init_last_synced_block_file raises ValueError
                 /\ pc' = "ctor_failed"
                 /\ exc' = "ValueError"
                 /\ UNCHANGED <<ckptExists, ckptText, ckptValue, last_synced_block>>
                 /\ h' = [HInit EXCEPT !.preText = ckptText, !.preExists = ckptExists]
            ELSE /\ ckptExists' = TRUE
                 /\ ckptText' = CheckpointRecord(SeedValue(cfg.start_block))
                 /\ ckptValue' = Some(SeedValue(cfg.start_block))
                 /\ LET r == read_last_synced_block(ckptText')
                    IN IF r.ok
                       THEN /\ last_synced_block' = r.val
                            /\ pc' = "ready"
                            /\ exc' = "none"
                       ELSE /\ UNCHANGED last_synced_block
                            /\ pc' = "ctor_failed"
                            /\ exc' = "ValueError"
                 /\ h' = [HInit EXCEPT !.preText = ckptText, !.preExists = ckptExists,
                                       !.seeded = TRUE]
       ELSE /\ UNCHANGED <<ckptExists, ckptText, ckptValue>>
            /\ LET r == read_last_synced_block(ckptText)
               IN IF r.ok
                  THEN /\ last_synced_block' = r.val
                       /\ pc' = "ready"
                       /\ exc' = "none"
                  ELSE /\ UNCHANGED last_synced_block
                       /\ pc' = "ctor_failed"
                       /\ exc' = "ValueError"
            /\ h' = [HInit EXCEPT !.preText = ckptText, !.preExists = ckptExists]
    /\ UNCHANGED <<cfg, pidExists, head, runs, EngineLocals>>

\* Streamer.__init__ when write_last_synced_block fails inside
\* init_last_synced_block_file: the file is left absent (open failed) or
\* created empty (the write after the truncating open failed)
StreamerInitWriteFail ==
    /\ pc = "new"
    /\ NeedsInit(cfg.start_block, ckptExists)
    /\ ~ckptExists
    /\ ckptExists' \in BOOLEAN
    /\ ckptText' = <<>>
    /\ ckptValue' = None
    /\ processed_blocks_count' = 0
    /\ pc' = "ctor_failed"
    /\ exc' = "IOError"
    /\ h' = [HInit EXCEPT !.preText = ckptText, !.preExists = ckptExists]
    /\ UNCHANGED <<cfg, pidExists, head, runs, last_synced_block, EngineLocals>>

----------------------------------------------------------------------------
(* Streamer.stream: the try block up to _do_stream *)

\* stream() is called; the pid file (if configured) is written
Stream ==
    /\ pc = "ready"
    /\ pidExists' = IF cfg.pid_file THEN TRUE ELSE pidExists
    /\ pc' = "open"
    /\ h' = [h EXCEPT !.initial = last_synced_block]
    /\ UNCHANGED <<cfg, ckptExists, ckptText, ckptValue, head, last_synced_block,
                   processed_blocks_count, EngineLocals, exc, runs>>

\* stream() is called and write_to_file(pid_file) raises
StreamPidFail ==
    /\ pc = "ready"
    /\ cfg.pid_file
    /\ pidExists' \in BOOLEAN
    /\ exc' = "pid"
    /\ pc' = "finally"
    /\ h' = [h EXCEPT !.initial = last_synced_block]
    /\ UNCHANGED <<cfg, ckptExists, ckptText, ckptValue, head, last_synced_block,
                   processed_blocks_count, EngineLocals, runs>>

\* adapter.open() returns
AdapterOpen ==
    /\ pc = "open"
    /\ h' = [h EXCEPT !.opens = @ + 1, !.opened = TRUE]
    /\ pc' = "loop"
    /\ UNCHANGED <<cfg, ckptExists, ckptText, ckptValue, pidExists, head, last_synced_block,
                   processed_blocks_count, EngineLocals, exc, runs>>

\* mutant: open() is called outside the try block
AdapterOpenRaise_NoCleanup ==
    /\ pc = "open"
    /\ h' = [h EXCEPT !.opens = @ + 1]
    /\ exc' = "open"
    /\ pc' = "raised"
    /\ UNCHANGED <<cfg, ckptExists, ckptText, ckptValue, pidExists, head, last_synced_block,
                   processed_blocks_count, EngineLocals, runs>>

\* adapter.open() raises
AdapterOpenRaise ==
    /\ pc = "open"
    /\ h' = [h EXCEPT !.opens = @ + 1]
    /\ exc' = "open"
    /\ pc' = "finally"
    /\ UNCHANGED <<cfg, ckptExists, ckptText, ckptValue, pidExists, head, last_synced_block,
                   processed_blocks_count, EngineLocals, runs>>

----------------------------------------------------------------------------
(* Streamer._do_stream *)

\* mutant: the loop runs once more at the end block
LoopCondition_Inclusive(end_block, last) == end_block = None \/ last <= Val(end_block)

\* the while condition
LoopCondition(end_block, last) == end_block = None \/ last < Val(end_block)

\* mutant: the except clause never re-raises
Reraises_Never(retry_errors) == FALSE

\* "if not self.retry_errors: raise e"
Reraises(retry_errors) == ~retry_errors

\* mutant: every iteration sleeps
ShouldSleep_Always(synced) == TRUE

\* mutant: the sleep test misses the zero-progress case
ShouldSleep_OnlyNegative(synced) == synced < 0

\* "if synced_blocks <= 0: sleep"
ShouldSleep(synced) == synced <= 0

DoStreamLoop ==
    /\ pc = "loop"
    /\ IF LoopCondition(cfg.end_block, last_synced_block)
       THEN /\ synced_blocks' = 0
            /\ pc' = "head"
            /\ h' = [h EXCEPT !.cycled = TRUE, !.cycleText = ckptText,
                              !.cycleLast = last_synced_block,
                              !.cycleProcessed = processed_blocks_count,
                              !.cycleErr = "none", !.export = NoExport,
                              !.sleptBefore = h.sleeps, !.sleeps = 0]
       ELSE /\ pc' = "finally"
            /\ UNCHANGED <<synced_blocks, h>>
    /\ UNCHANGED <<cfg, ckptExists, ckptText, ckptValue, pidExists, head, last_synced_block,
                   processed_blocks_count, current_block, block_batch_size,
                   target_block, blocks_to_sync, exc, runs>>

\* the except clause of _do_stream, for an error e raised by _sync_cycle;
\* hnew is the observation record after the failing call
ExceptClause(e, hnew) ==
    /\ h' = [hnew EXCEPT !.cycleErr = e]
    /\ IF Reraises(cfg.retry_errors)
       THEN /\ exc' = e
            /\ pc' = "finally"
       ELSE /\ exc' = exc
            /\ pc' = "after"
    /\ UNCHANGED synced_blocks

\* the sleep test that ends a loop iteration
AfterCycle ==
    /\ pc = "after"
    /\ pc' = "loop"
    /\ h' = [h EXCEPT !.sleeps = IF ShouldSleep(synced_blocks) THEN 1 ELSE 0,
                      !.slept = @ \/ ShouldSleep(synced_blocks),
                      !.widened = @ \/ block_batch_size > 1,
                      !.prev = [valid |-> TRUE,
                                err |-> h.cycleErr,
                                from |-> h.cycleLast + 1,
                                head |-> IF h.cycleErr = "head" THEN None ELSE Some(current_block),
                                range |-> IF h.export.called
                                          THEN Some(<<h.export.from, h.export.to>>) ELSE None,
                                synced |-> synced_blocks]]
    \* the locals of the finished _sync_cycle call are gone
    /\ current_block' = 0
    /\ block_batch_size' = 0
    /\ target_block' = 0
    /\ blocks_to_sync' = 0
    /\ UNCHANGED <<cfg, ckptExists, ckptText, ckptValue, pidExists, head, last_synced_block,
                   processed_blocks_count, synced_blocks, exc, runs>>

----------------------------------------------------------------------------
(* Streamer._sync_cycle *)

\* mutant: the ramp-up test is strict
EffectiveBatchSize_Strict(ramp_up_blocks, processed, batch) ==
    IF ramp_up_blocks # 0 /\ ramp_up_blocks > 0 /\ processed < ramp_up_blocks
    THEN 1 ELSE batch

\* the effective batch width of a cycle
EffectiveBatchSize(ramp_up_blocks, processed, batch) ==
    IF ramp_up_blocks # 0 /\ ramp_up_blocks > 0 /\ processed <= ramp_up_blocks
    THEN 1 ELSE batch

\* mutant: the batch width counts the last synced block
calculate_target_block_WidthOffByOne(current, last, batch, lag, end_block) ==
    LET t2 == Min(current - lag, last + batch - 1)
    IN IF end_block # None THEN Min(t2, Val(end_block)) ELSE t2

\* mutant: the lag is not applied
calculate_target_block_NoLag(current, last, batch, lag, end_block) ==
    LET t2 == Min(current, last + batch)
    IN IF end_block # None THEN Min(t2, Val(end_block)) ELSE t2

\* mutant: the end block is not applied
calculate_target_block_NoEnd(current, last, batch, lag, end_block) ==
    Min(current - lag, last + batch)

\* Streamer._calculate_target_block
calculate_target_block(current, last, batch, lag, end_block) ==
    LET t1 == current - lag
        t2 == Min(t1, last + batch)
    IN IF end_block # None THEN Min(t2, Val(end_block)) ELSE t2

\* mutant: the distance to the target without the clamp at zero
BlocksToSync_Abs(target, last) == IF target >= last THEN target - last ELSE last - target

BlocksToSync(target, last) == Max(target - last, 0)

\* the observation of one head query or export call
AdapterCall(hh) == [hh EXCEPT !.callsBeforeOpen = @ + (IF hh.opened THEN 0 ELSE 1),
                              !.callsAfterClose = @ + (IF hh.closes > 0 THEN 1 ELSE 0)]

\* the source's head moves (environment), observed by the next head query
HeadMove ==
    /\ pc = "head"
    /\ head' \in Heads \ {head}
    /\ UNCHANGED <<cfg, ckptExists, ckptText, ckptValue, pidExists, pc, last_synced_block,
                   processed_blocks_count, EngineLocals, exc, runs, h>>

\* get_current_block_number() returns; the target is computed
GetCurrentBlock ==
    /\ pc = "head"
    /\ current_block' = head
    /\ block_batch_size' = EffectiveBatchSize(cfg.ramp_up_blocks, processed_blocks_count,
                                              cfg.block_batch_size)
    /\ target_block' = calculate_target_block(current_block', last_synced_block,
                                              block_batch_size', cfg.lag, cfg.end_block)
    /\ blocks_to_sync' = BlocksToSync(target_block', last_synced_block)
    /\ IF blocks_to_sync' # 0
       THEN /\ pc' = "export"
            /\ UNCHANGED synced_blocks
       ELSE /\ pc' = "after"
            /\ synced_blocks' = blocks_to_sync'
    /\ h' = [AdapterCall(h) EXCEPT !.queried = TRUE]
    /\ UNCHANGED <<cfg, ckptExists, ckptText, ckptValue, pidExists, head, last_synced_block,
                   processed_blocks_count, exc, runs>>

\* get_current_block_number() raises
GetCurrentBlockRaise ==
    /\ pc = "head"
    /\ ExceptClause("head", [AdapterCall(h) EXCEPT !.queried = TRUE])
    /\ UNCHANGED <<cfg, ckptExists, ckptText, ckptValue, pidExists, head, last_synced_block,
                   processed_blocks_count, current_block, block_batch_size,
                   target_block, blocks_to_sync, runs>>

\* export_all(last_synced_block + 1, target_block) returns
ExportAll ==
    /\ pc = "export"
    /\ h' = [AdapterCall(h) EXCEPT !.exported = TRUE,
                      !.export = [from |-> last_synced_block + 1, to |-> target_block,
                                  called |-> TRUE, returned |-> TRUE]]
    /\ pc' = "write"
    /\ UNCHANGED <<cfg, ckptExists, ckptText, ckptValue, pidExists, head, last_synced_block,
                   processed_blocks_count, EngineLocals, exc, runs>>

\* mutant: the checkpoint is written before the export is known to have succeeded
ExportAllRaise_Commits ==
    /\ pc = "export"
    /\ ExceptClause("export",
                    [AdapterCall(h) EXCEPT !.exported = TRUE,
                              !.export = [from |-> last_synced_block + 1, to |-> target_block,
                                          called |-> TRUE, returned |-> FALSE]])
    /\ ckptText' = CheckpointRecord(target_block)
    /\ ckptValue' = Some(target_block)
    /\ last_synced_block' = target_block
    /\ UNCHANGED <<cfg, ckptExists, pidExists, head, processed_blocks_count,
                   current_block, block_batch_size, target_block, blocks_to_sync, runs>>

\* export_all(last_synced_block + 1, target_block) raises
ExportAllRaise ==
    /\ pc = "export"
    /\ ExceptClause("export",
                    [AdapterCall(h) EXCEPT !.exported = TRUE,
                              !.export = [from |-> last_synced_block + 1, to |-> target_block,
                                          called |-> TRUE, returned |-> FALSE]])
    /\ UNCHANGED <<cfg, ckptExists, ckptText, ckptValue, pidExists, head, last_synced_block,
                   processed_blocks_count, current_block, block_batch_size,
                   target_block, blocks_to_sync, runs>>

\* write_last_synced_block succeeds; the rest of _sync_cycle runs
\* mutant: the file is written but the in-memory checkpoint is not advanced
WriteLastSyncedBlock_NoMemory ==
    /\ pc = "write"
    /\ ckptExists' = TRUE
    /\ ckptText' = CheckpointRecord(target_block)
    /\ ckptValue' = Some(target_block)
    /\ processed_blocks_count' = processed_blocks_count + blocks_to_sync
    /\ synced_blocks' = blocks_to_sync
    /\ pc' = "after"
    /\ h' = [h EXCEPT !.wrote = TRUE]
    /\ UNCHANGED <<cfg, pidExists, head, last_synced_block, current_block, block_batch_size,
                   target_block, blocks_to_sync, exc, runs>>

WriteLastSyncedBlock ==
    /\ pc = "write"
    /\ ckptExists' = TRUE
    /\ ckptText' = CheckpointRecord(target_block)
    /\ ckptValue' = Some(target_block)
    /\ last_synced_block' = target_block
    /\ processed_blocks_count' = processed_blocks_count + blocks_to_sync
    /\ synced_blocks' = blocks_to_sync
    /\ pc' = "after"
    /\ h' = [h EXCEPT !.wrote = TRUE]
    /\ UNCHANGED <<cfg, pidExists, head, current_block, block_batch_size,
                   target_block, blocks_to_sync, exc, runs>>

\* write_last_synced_block raises: the file is untouched (open failed) or
\* left empty (the write after the truncating open failed)
WriteLastSyncedBlockFail ==
    /\ pc = "write"
    /\ \/ UNCHANGED <<ckptText, ckptValue>>
       \/ ckptText' = <<>> /\ ckptValue' = None
    /\ ckptExists' = TRUE
    /\ ExceptClause("write", [h EXCEPT !.wrote = TRUE])
    /\ UNCHANGED <<cfg, pidExists, head, last_synced_block, processed_blocks_count,
                   current_block, block_batch_size, target_block, blocks_to_sync, runs>>

----------------------------------------------------------------------------
(* Streamer.stream: the finally block *)

\* delete_file(pid_file): the file is gone afterwards (OSError is swallowed)
delete_file(exists) == FALSE

\* adapter.close() returns; the pid file is deleted; stream() returns or raises
AdapterClose ==
    /\ pc = "finally"
    /\ h' = [h EXCEPT !.closes = @ + 1]
    /\ pidExists' = IF cfg.pid_file THEN delete_file(pidExists) ELSE pidExists
    /\ pc' = IF exc = "none" THEN "returned" ELSE "raised"
    /\ UNCHANGED <<cfg, ckptExists, ckptText, ckptValue, head, last_synced_block,
                   processed_blocks_count, EngineLocals, exc, runs>>

\* adapter.close() raises: its error leaves stream(), the rest of the finally
\* block is skipped
AdapterCloseRaise ==
    /\ pc = "finally"
    /\ h' = [h EXCEPT !.closes = @ + 1]
    /\ exc' = "close"
    /\ pc' = "raised"
    /\ UNCHANGED <<cfg, ckptExists, ckptText, ckptValue, pidExists, head, last_synced_block,
                   processed_blocks_count, EngineLocals, runs>>

----------------------------------------------------------------------------
(* A later engine process on the same checkpoint path *)

Stopped == pc \in {"returned", "raised", "ctor_failed"}

Restart ==
    /\ Stopped
    /\ runs < MaxRuns
    /\ runs' = runs + 1
    /\ \E s \in StartBlocks : cfg' = [cfg EXCEPT !.start_block = s]
    /\ pc' = "new"
    /\ exc' = "none"
    /\ last_synced_block' = 0
    /\ processed_blocks_count' = 0
    /\ current_block' = 0
    /\ block_batch_size' = 0
    /\ target_block' = 0
    /\ blocks_to_sync' = 0
    /\ synced_blocks' = 0
    /\ h' = HInit
    /\ UNCHANGED <<ckptExists, ckptText, ckptValue, pidExists, head>>

----------------------------------------------------------------------------

Next ==
    \/ StreamerInit
    \/ StreamerInitWriteFail
    \/ Stream
    \/ StreamPidFail
    \/ AdapterOpen
    \/ AdapterOpenRaise
    \/ DoStreamLoop
    \/ HeadMove
    \/ GetCurrentBlock
    \/ GetCurrentBlockRaise
    \/ ExportAll
    \/ ExportAllRaise
    \/ WriteLastSyncedBlock
    \/ WriteLastSyncedBlockFail
    \/ AfterCycle
    \/ AdapterClose
    \/ AdapterCloseRaise
    \/ Restart

Spec == Init /\ [][Next]_vars

----------------------------------------------------------------------------
(* The target computation on its own: inputs drawn from bounded sets, one   *)
(* step that computes target_block and blocks_to_sync as _sync_cycle does   *)

CalcHeads == Heads \cup {50, 150}
CalcLasts == {-1, 0, 2, 50, 99}
CalcLags == {0, 1, 10}
CalcWidths == {1, 2, 20}
CalcEnds == {None, Some(1), Some(3), Some(110)}

InitCalc ==
    /\ cfg \in [lag : CalcLags, start_block : {None}, end_block : CalcEnds,
                block_batch_size : {1}, ramp_up_blocks : {0},
                retry_errors : {TRUE}, pid_file : {FALSE}]
    /\ head \in CalcHeads
    /\ last_synced_block \in CalcLasts
    /\ block_batch_size \in CalcWidths
    /\ pc = "calc"
    /\ ckptExists = FALSE
    /\ ckptText = <<>>
    /\ ckptValue = None
    /\ pidExists = FALSE
    /\ processed_blocks_count = 0
    /\ current_block = 0
    /\ target_block = 0
    /\ blocks_to_sync = 0
    /\ synced_blocks = 0
    /\ exc = "none"
    /\ runs = 1
    /\ h = HInit

CalcTarget ==
    /\ pc = "calc"
    /\ current_block' = head
    /\ target_block' = calculate_target_block(current_block', last_synced_block,
                                              block_batch_size, cfg.lag, cfg.end_block)
    /\ blocks_to_sync' = BlocksToSync(target_block', last_synced_block)
    /\ pc' = "calc_done"
    /\ UNCHANGED <<cfg, ckptExists, ckptText, ckptValue, pidExists, head, last_synced_block,
                   processed_blocks_count, block_batch_size, synced_blocks, exc, runs, h>>

NextCalc == CalcTarget

SpecCalc == InitCalc /\ [][NextCalc]_vars

----------------------------------------------------------------------------
(* One engine run with retry_errors, an end_block and no pid file, fair:    *)
(* the engine's own steps are always taken eventually (it is a single       *)
(* thread that runs on), and a head query, an export or a checkpoint write  *)
(* that is attempted again and again eventually succeeds                    *)

InitLive == Init /\ ~cfg.pid_file /\ cfg.retry_errors /\ cfg.end_block # None

NextLive ==
    \/ StreamerInit
    \/ StreamerInitWriteFail
    \/ Stream
    \/ AdapterOpen
    \/ AdapterOpenRaise
    \/ DoStreamLoop
    \/ HeadMove
    \/ GetCurrentBlock
    \/ GetCurrentBlockRaise
    \/ ExportAll
    \/ ExportAllRaise
    \/ WriteLastSyncedBlock
    \/ WriteLastSyncedBlockFail
    \/ AfterCycle
    \/ AdapterClose
    \/ AdapterCloseRaise

LiveFairness ==
    /\ WF_vars(StreamerInit)
    /\ WF_vars(Stream)
    /\ WF_vars(AdapterOpen \/ AdapterOpenRaise)
    /\ WF_vars(DoStreamLoop)
    /\ WF_vars(AfterCycle)
    /\ WF_vars(AdapterClose \/ AdapterCloseRaise)
    /\ SF_vars(GetCurrentBlock)
    /\ SF_vars(ExportAll)
    /\ SF_vars(WriteLastSyncedBlock)

SpecLive == InitLive /\ [][NextLive]_vars /\ LiveFairness

TypeOK ==
    /\ cfg \in Configs
    /\ ckptExists \in BOOLEAN
    /\ pidExists \in BOOLEAN
    /\ head \in Heads
    /\ last_synced_block \in Int
    /\ processed_blocks_count \in Nat
    /\ runs \in 1..MaxRuns

----------------------------------------------------------------------------
(* Vocabulary of the properties *)

LoopPcs == {"loop", "head", "export", "write", "after"}
CyclePcs == {"head", "export", "write", "after"}
AdapterErrors == {"head", "export"}

\* the integer a checkpoint text parses to
TextValue(text) == ParseInt(text).val
TextIsInt(text) == ParseInt(text).ok

----------------------------------------------------------------------------
(* C1 -- Checkpoint monotonicity.  During an engine run every integer       *)
(* written to the checkpoint file is strictly greater than the in-memory    *)
(* lastSyncedBlock and than the integer it replaces, and lastSyncedBlock    *)
(* never decreases, whatever the cycles do (success, empty, failure) and    *)
(* wherever the head moves.                                                 *)

C1_Step ==
    /\ (pc \in CyclePcs /\ ckptText' # ckptText /\ TextIsInt(ckptText')) =>
          /\ TextValue(ckptText') > last_synced_block
          /\ TextIsInt(ckptText) => TextValue(ckptText') > TextValue(ckptText)
          /\ ckptValue # None => TextValue(ckptText') > Val(ckptValue)
    /\ (pc \in LoopPcs /\ pc' \in LoopPcs) => last_synced_block' >= last_synced_block

C1_CheckpointMonotonic == [][C1_Step]_vars

\* a cycle advanced the checkpoint although the head it saw was behind the
\* head of the failed cycle before it
C1_Witness ==
    /\ pc = "after"
    /\ synced_blocks > 0
    /\ h.prev.valid /\ h.prev.err = "export"
    /\ current_block < Val(h.prev.head)
    /\ TextIsInt(h.cycleText)
    /\ TextValue(ckptText) > TextValue(h.cycleText)

----------------------------------------------------------------------------
(* C2 -- No partial commit.  A cycle whose head query or export raised      *)
(* leaves the checkpoint file, lastSyncedBlock and processedBlocksCount as  *)
(* they were when the cycle started; the checkpoint file is written in a    *)
(* cycle only after export_all(lastSyncedBlock + 1, target) has returned,   *)
(* and the integer written is that target.                                  *)

C2_FailedCycleFrame ==
    h.cycleErr \in AdapterErrors =>
        /\ ckptText = h.cycleText
        /\ last_synced_block = h.cycleLast
        /\ processed_blocks_count = h.cycleProcessed

C2_WriteStep ==
    (pc \in LoopPcs /\ (ckptText' # ckptText \/ h'.wrote # h.wrote
                        \/ last_synced_block' # last_synced_block
                        \/ processed_blocks_count' # processed_blocks_count)) =>
        /\ h.export.called /\ h.export.returned
        /\ h.export.from = last_synced_block + 1
        /\ h.export.to = target_block
        /\ h.cycleErr = "none"
        /\ (ckptText' # ckptText /\ TextIsInt(ckptText')) => TextValue(ckptText') = h.export.to
        /\ last_synced_block' # last_synced_block => last_synced_block' = h.export.to

C2_NoPartialCommit == [](C2_FailedCycleFrame) /\ [][C2_WriteStep]_vars

\* an export raised after an earlier cycle of the same run had committed
C2_Witness ==
    /\ pc = "after"
    /\ h.cycleErr = "export"
    /\ h.export.called /\ ~h.export.returned
    /\ processed_blocks_count > 0
    /\ ckptText = h.cycleText

----------------------------------------------------------------------------
(* C3 -- retryErrors = false: once the head query or the export of a cycle  *)
(* has raised, no further cycle starts, no sleep follows, the checkpoint    *)
(* file and lastSyncedBlock stay as the earlier cycles left them, and       *)
(* stream() raises.  C3_Original states the claim as made: the error        *)
(* stream() raises is the error of the cycle.  C3_SameErrorUnlessCloseFails *)
(* is the amended claim: it is that error, or the error of close() when     *)
(* close() itself raises in the finally block.                              *)

C3_Common ==
    /\ pc \in {"finally", "raised"}
    /\ h.sleeps = 0
    /\ ckptText = h.cycleText
    /\ last_synced_block = h.cycleLast
    /\ processed_blocks_count = h.cycleProcessed

C3_Original ==
    (~cfg.retry_errors /\ h.cycleErr \in AdapterErrors) =>
        /\ C3_Common
        /\ exc = h.cycleErr

C3_SameErrorUnlessCloseFails ==
    (~cfg.retry_errors /\ h.cycleErr \in AdapterErrors) =>
        /\ C3_Common
        /\ pc = "finally" => exc = h.cycleErr
        /\ pc = "raised" => exc \in {h.cycleErr, "close"}

\* stream() raised the export error of a cycle that followed committed cycles
C3_Witness ==
    /\ pc = "raised"
    /\ ~cfg.retry_errors
    /\ h.cycleErr = "export" /\ exc = "export"
    /\ processed_blocks_count > 0
    /\ h.closes = 1

----------------------------------------------------------------------------
(* C4 -- retryErrors = true: a cycle whose head query or export raised is   *)
(* a zero-progress cycle; the loop goes on, sleeps exactly once, and the    *)
(* next cycle's export (if any) starts at the same first block as the       *)
(* failed attempt, and has the same range when the head it sees is the head *)
(* the failed attempt saw.                                                  *)

C4_RetryAfterFailure ==
    /\ (cfg.retry_errors /\ h.cycleErr \in AdapterErrors) =>
          /\ pc \in {"after", "loop"}
          /\ synced_blocks = 0
          /\ exc = "none"
    /\ (cfg.retry_errors /\ h.prev.valid /\ h.prev.err \in AdapterErrors) =>
          /\ pc \in LoopPcs
          /\ h.prev.synced = 0
          /\ pc = "loop" => /\ h.sleeps = 1
                            /\ (cfg.end_block = None
                                \/ last_synced_block < Val(cfg.end_block))
          /\ pc \in CyclePcs => h.sleptBefore = 1
          /\ h.export.called =>
                /\ h.export.from = h.prev.from
                /\ (h.prev.range # None /\ h.prev.head = Some(current_block)) =>
                       <<h.export.from, h.export.to>> = Val(h.prev.range)

\* the export of the cycle after a failed export, made with the same head
C4_Witness ==
    /\ cfg.retry_errors
    /\ pc = "write"
    /\ h.prev.valid /\ h.prev.err = "export"
    /\ h.prev.head = Some(current_block)
    /\ h.export.called /\ h.export.returned
    /\ h.export.to > h.export.from
    /\ h.sleptBefore = 1

----------------------------------------------------------------------------
(* C5 -- close() exactly once.  When stream() has returned or raised,       *)
(* adapter.close() has been called exactly once in that invocation; it is   *)
(* never called while the loop runs, and no head query or export follows it.*)

C5_CloseExactlyOnce ==
    /\ pc \in {"returned", "raised"} => h.closes = 1
    /\ pc \in LoopPcs \cup {"ready", "open", "finally"} => h.closes = 0
    /\ h.callsAfterClose = 0

\* stream() raised the error of open(), and close() was called once
C5_Witness ==
    /\ pc = "raised"
    /\ exc = "open"
    /\ h.opens = 1 /\ ~h.opened
    /\ h.closes = 1

----------------------------------------------------------------------------
(* C6 -- With a pid file configured, the pid file is gone when stream() has *)
(* returned or raised.                                                      *)

C6_PidFileRemoved ==
    (cfg.pid_file /\ pc \in {"returned", "raised"}) => ~pidExists

----------------------------------------------------------------------------
(* C7 -- Initialization guard.  A constructor called with an explicit       *)
(* start_block (0 included) while the checkpoint file exists raises         *)
(* ValueError, leaves the file as it found it, and no adapter operation or  *)
(* loop iteration has happened.                                             *)

C7_InitGuard ==
    (pc # "new" /\ h.preExists /\ cfg.start_block # None) =>
        /\ pc = "ctor_failed"
        /\ exc = "ValueError"
        /\ ckptExists
        /\ ckptText = h.preText
        /\ ~h.seeded
        /\ h.opens = 0 /\ h.closes = 0
        /\ ~h.queried /\ ~h.exported /\ ~h.cycled /\ ~h.wrote

\* start_block = 0 against the checkpoint an earlier run advanced to 3
C7_Witness ==
    /\ pc = "ctor_failed"
    /\ runs = 2
    /\ cfg.start_block = Some(0)
    /\ h.preExists
    /\ ckptValue = Some(3)

----------------------------------------------------------------------------
(* C8 -- Seeding and resume.  A constructor that finds no checkpoint file   *)
(* writes start_block - 1 (-1 when start_block is unset) and starts from    *)
(* it; a constructor that finds a file holding C, with no start_block,      *)
(* leaves the file alone and starts from C.                                 *)

ExpectedSeed == IF cfg.start_block = None THEN -1 ELSE Val(cfg.start_block) - 1

C8_SeedAndResume ==
    pc = "ready" =>
        /\ ~h.preExists =>
              /\ h.seeded
              /\ ckptExists
              /\ TextIsInt(ckptText) /\ TextValue(ckptText) = ExpectedSeed
              /\ ckptValue = Some(ExpectedSeed)
              /\ last_synced_block = ExpectedSeed
        /\ h.preExists =>
              /\ ~h.seeded
              /\ ckptText = h.preText
              /\ ckptValue # None
              /\ last_synced_block = Val(ckptValue)

\* the second run resumes from the checkpoint 3 the first run advanced to
C8_Witness ==
    /\ pc = "ready"
    /\ runs = 2
    /\ h.preExists
    /\ cfg.start_block = None
    /\ last_synced_block = 3

----------------------------------------------------------------------------
(* C9 -- Termination at endBlock (under SpecLive).  A cycle starts only     *)
(* while end_block is unset or lastSyncedBlock < end_block; a run whose     *)
(* checkpoint is already >= end_block when stream() is called makes no      *)
(* cycle, head query, export, checkpoint write or sleep; and a run with     *)
(* retry_errors and an end_block not below its checkpoint ends with         *)
(* lastSyncedBlock = end_block once the head stays >= end_block + lag.      *)
(* C9_Original states the claim as made: stream() then returns normally.    *)
(* C9_TerminatesAtEndBlock is the amended claim: it returns normally unless *)
(* open() or close() raises.                                                *)

EndReached == cfg.end_block # None /\ last_synced_block >= Val(cfg.end_block)

C9_LoopGuard ==
    /\ pc \in {"head", "export", "write"} =>
          /\ h.cycleLast = last_synced_block
          /\ cfg.end_block = None \/ h.cycleLast < Val(cfg.end_block)
    /\ (pc = "finally" /\ exc = "none" /\ h.opened) => EndReached
    /\ (pc \in LoopPcs /\ cfg.end_block # None /\ h.initial <= Val(cfg.end_block)) =>
          last_synced_block <= Val(cfg.end_block)

C9_ZeroCycles ==
    (h.opened /\ cfg.end_block # None /\ h.initial >= Val(cfg.end_block)) =>
        /\ pc \in {"loop", "finally", "returned", "raised"}
        /\ ~h.cycled /\ ~h.queried /\ ~h.exported /\ ~h.wrote /\ ~h.slept
        /\ last_synced_block = h.initial
        /\ ckptText = h.preText \/ h.seeded

C9_Start ==
    /\ pc = "ready"
    /\ cfg.retry_errors
    /\ cfg.end_block # None
    /\ last_synced_block <= Val(cfg.end_block)

HeadStaysHigh == cfg.end_block # None /\ head >= Val(cfg.end_block) + cfg.lag

ReturnedAtEnd ==
    /\ pc = "returned"
    /\ cfg.end_block # None
    /\ last_synced_block = Val(cfg.end_block)

----------------------------------------------------------------------------
(* C10 -- computeTarget (under SpecCalc).  The computed target equals       *)
(* min(currentHead - lag, lastSynced + batchWidth, endBound if set); it is  *)
(* non-decreasing in currentHead, at most lastSynced + batchWidth and at    *)
(* most endBound; blocksToSync = max(target - lastSynced, 0) >= 0; and      *)
(* lastSynced=99, head=150, lag=10, width=20, end=110 gives 110 and 11.     *)

SetMin(S) == CHOOSE x \in S : \A y \in S : x <= y

RefTarget(current, last, batch, lag, end_block) ==
    SetMin({current - lag, last + batch}
           \cup (IF end_block = None THEN {} ELSE {Val(end_block)}))

C10_ComputeTarget ==
    pc = "calc_done" =>
        /\ target_block = RefTarget(current_block, last_synced_block, block_batch_size,
                                    cfg.lag, cfg.end_block)
        /\ target_block <= last_synced_block + block_batch_size
        /\ cfg.end_block # None => target_block <= Val(cfg.end_block)
        /\ \A h1, h2 \in CalcHeads :
              h1 <= h2 =>
                 calculate_target_block(h1, last_synced_block, block_batch_size,
                                        cfg.lag, cfg.end_block)
                 <= calculate_target_block(h2, last_synced_block, block_batch_size,
                                           cfg.lag, cfg.end_block)
        /\ blocks_to_sync >= 0
        /\ blocks_to_sync = (IF target_block > last_synced_block
                             THEN target_block - last_synced_block ELSE 0)
        /\ (/\ last_synced_block = 99 /\ current_block = 150 /\ cfg.lag = 10
            /\ block_batch_size = 20 /\ cfg.end_block = Some(110)) =>
               (target_block = 110 /\ blocks_to_sync = 11)

\* example scenario B has been computed
C10_Witness ==
    /\ pc = "calc_done"
    /\ last_synced_block = 99 /\ current_block = 150 /\ cfg.lag = 10
    /\ block_batch_size = 20 /\ cfg.end_block = Some(110)
    /\ target_block = 110 /\ blocks_to_sync = 11

----------------------------------------------------------------------------
(* C11 -- Bounds on every export call.  export_all(from, to) is called      *)
(* with from <= to, to <= current_block - lag for the head queried in the   *)
(* same cycle, to <= end_block when it is set, and to - from + 1 at most    *)
(* the cycle's effective batch width, itself at most max(1, block_batch_size)*)

ExportBounds(from, to) ==
    /\ from <= to
    /\ to <= current_block - cfg.lag
    /\ cfg.end_block # None => to <= Val(cfg.end_block)
    /\ to - from + 1 <= block_batch_size
    /\ block_batch_size <= Max(1, cfg.block_batch_size)

C11_ExportBounds ==
    /\ pc = "export" => ExportBounds(last_synced_block + 1, target_block)
    /\ (pc \in {"write", "after"} /\ h.export.called) =>
          ExportBounds(h.export.from, h.export.to)

\* a two-block export that stops one block behind the head, with an end block set
C11_Witness ==
    /\ pc = "write"
    /\ h.export.called
    /\ h.export.to = h.export.from + 1
    /\ cfg.lag = 1
    /\ h.export.to = current_block - 1
    /\ cfg.end_block # None

----------------------------------------------------------------------------
(* C12 -- Ramp-up invariant.  C12_Original states the claim as made: for    *)
(* every ramp_up_blocks >= 0 a cycle that starts with                       *)
(* processed_blocks_count <= ramp_up_blocks uses width 1, any other cycle   *)
(* block_batch_size.  C12_RampUpWidth is the amended claim: this holds for  *)
(* ramp_up_blocks > 0; with ramp_up_blocks = 0 every cycle uses             *)
(* block_batch_size.                                                        *)

\* the cycle has computed its effective width
WidthKnown == pc \in {"export", "write"} \/ (pc = "after" /\ h.cycleErr # "head")

C12_Original ==
    WidthKnown =>
        block_batch_size = (IF h.cycleProcessed <= cfg.ramp_up_blocks
                            THEN 1 ELSE cfg.block_batch_size)

C12_RampUpWidth ==
    WidthKnown =>
        block_batch_size = (IF cfg.ramp_up_blocks > 0
                               /\ h.cycleProcessed <= cfg.ramp_up_blocks
                            THEN 1 ELSE cfg.block_batch_size)

\* a cycle still in ramp-up after one processed block, and a cycle past it
C12_Witness ==
    /\ pc = "export"
    /\ cfg.ramp_up_blocks = 1 /\ cfg.block_batch_size = 2
    /\ h.cycleProcessed = 1
    /\ block_batch_size = 1

----------------------------------------------------------------------------
(* C13 -- Idle sleep exactly on zero progress.  A cycle that returns        *)
(* blocks_to_sync = 0 has made no export and no checkpoint write, and the   *)
(* loop sleeps once before its next step; after a cycle with positive       *)
(* progress the next step (next cycle or loop exit) follows with no sleep.  *)

SleepsFor(synced) == IF synced = 0 THEN 1 ELSE 0

C13_IdleSleep ==
    /\ (pc = "after" /\ h.cycleErr = "none" /\ synced_blocks = 0) =>
          /\ ~h.export.called
          /\ current_block - cfg.lag <= last_synced_block
                \/ (cfg.end_block # None /\ Val(cfg.end_block) <= last_synced_block)
          /\ ckptText = h.cycleText
          /\ last_synced_block = h.cycleLast
          /\ processed_blocks_count = h.cycleProcessed
    /\ (pc = "after" /\ synced_blocks > 0) => last_synced_block > h.cycleLast
    /\ (h.prev.valid /\ (pc = "loop" \/ (pc = "finally" /\ exc = "none"))) =>
          h.sleeps = SleepsFor(h.prev.synced)
    /\ (h.prev.valid /\ pc \in CyclePcs) => h.sleptBefore = SleepsFor(h.prev.synced)

\* the cycle found the head at the checkpoint with no lag and the loop slept once
C13_Witness ==
    /\ pc = "loop"
    /\ h.prev.valid /\ h.prev.err = "none"
    /\ h.prev.synced = 0 /\ h.prev.range = None
    /\ cfg.lag = 0
    /\ h.prev.head = Some(last_synced_block)
    /\ h.sleeps = 1

----------------------------------------------------------------------------
(* C14 -- Example scenario A (under SpecCalc): lastSynced = 99, head = 150, *)
(* lag = 10, width = 20, no end block.  C14_Original states the claim as    *)
(* made: target 120 and 21 blocks to sync (export 100..120).                *)
(* C14_ScenarioA is the amended claim: target 119 and 20 blocks to sync,    *)
(* the export range is 100..119 and the checkpoint to write is 119.         *)

ScenarioA ==
    /\ last_synced_block = 99
    /\ current_block = 150
    /\ cfg.lag = 10
    /\ block_batch_size = 20
    /\ cfg.end_block = None

C14_Original ==
    (pc = "calc_done" /\ ScenarioA) =>
        /\ target_block = 120
        /\ blocks_to_sync = 21
        /\ <<last_synced_block + 1, target_block>> = <<100, 120>>

C14_ScenarioA ==
    (pc = "calc_done" /\ ScenarioA) =>
        /\ target_block = 119
        /\ blocks_to_sync = 20
        /\ blocks_to_sync # 0
        /\ <<last_synced_block + 1, target_block>> = <<100, 119>>

\* scenario A has been computed
C14_Witness ==
    /\ pc = "calc_done"
    /\ ScenarioA
    /\ target_block = 119

----------------------------------------------------------------------------
(* C15 -- Ramp-up length.  With ramp_up_blocks = R > 0 and                  *)
(* block_batch_size > 1, the first cycle of a run that uses                 *)
(* block_batch_size starts when processed_blocks_count = R: exactly R       *)
(* blocks have been exported one by one before it.                          *)

FirstWideCycle ==
    /\ cfg.ramp_up_blocks > 0
    /\ cfg.block_batch_size > 1
    /\ WidthKnown
    /\ block_batch_size = cfg.block_batch_size
    /\ ~h.widened

C15_RampUpLength == FirstWideCycle => h.cycleProcessed = cfg.ramp_up_blocks

----------------------------------------------------------------------------
(* C16 -- An unwritable checkpoint is fatal.  When the checkpoint write     *)
(* that follows a successful export fails, stream() terminates with that    *)
(* error whatever retry_errors is: the loop does not go on to another       *)
(* cycle, and no later cycle exports the range of the failed cycle again.   *)

ReExported ==
    /\ h.prev.valid
    /\ h.prev.err = "write"
    /\ h.export.called
    /\ h.prev.range = Some(<<h.export.from, h.export.to>>)

C16_WriteFailureFatal ==
    /\ h.cycleErr = "write" => pc \in {"finally", "raised"}
    /\ ~ReExported

----------------------------------------------------------------------------
(* C17 -- Checkpoint lower bound.  Claimed: the integer persisted in the    *)
(* checkpoint file is non-negative in every state from construction         *)
(* onwards.  The constructor seeds the file with (start_block or 0) - 1,    *)
(* which is -1 for start_block unset or 0; what holds is that the           *)
(* persisted integer is never below -1, and that it is -1 only while        *)
(* nothing has been synced.                                                 *)

\* the claim as stated, for a file the constructor has seeded
C17_Original ==
    (h.seeded /\ ckptExists /\ TextIsInt(ckptText)) => TextValue(ckptText) >= 0

C17_CheckpointAtLeastMinusOne ==
    (ckptExists /\ TextIsInt(ckptText)) =>
        /\ TextValue(ckptText) >= -1
        /\ (h.seeded /\ pc \in LoopPcs /\ TextValue(ckptText) = -1) =>
               /\ OrZero(cfg.start_block) = 0
               /\ processed_blocks_count = 0

C17_Witness ==
    /\ pc \in LoopPcs
    /\ h.seeded
    /\ ckptExists
    /\ TextIsInt(ckptText)
    /\ TextValue(ckptText) = -1

----------------------------------------------------------------------------
(* C18 -- File/memory consistency.  Claimed: at every loop-iteration        *)
(* boundary (after construction, between two cycles, at termination) the    *)
(* value stored in the checkpoint file equals last_synced_block, for every  *)
(* mix of successful, empty and failed cycles, and the next head query      *)
(* never precedes the previous cycle's checkpoint write.  A checkpoint      *)
(* write that fails after the truncating open leaves the file empty, so     *)
(* what holds is: the file holds the record of last_synced_block, or a      *)
(* failed checkpoint write of this run has left it empty.                   *)

Boundaries == {"ready", "open", "loop", "finally", "returned", "raised"}

\* a failed checkpoint write of this run has left the file empty
Torn == ckptExists /\ ckptText = <<>> /\ ckptValue = None /\ h.wrote

C18_Original ==
    pc \in Boundaries =>
        /\ TextIsInt(ckptText)
        /\ TextValue(ckptText) = last_synced_block

\* when a head query is about to be made, the previous cycle's write is done
C18_Sequential ==
    pc = "head" =>
        /\ ~h.export.called
        /\ h.cycleLast = last_synced_block
        /\ h.cycleText = ckptText
        /\ (h.prev.valid /\ h.prev.err = "none" /\ h.prev.range # None) =>
               /\ last_synced_block = Val(h.prev.range)[2]
               /\ ckptText = CheckpointRecord(Val(h.prev.range)[2])

C18_FileMatchesMemory ==
    /\ pc \in Boundaries =>
          \/ ckptExists /\ ckptText = CheckpointRecord(last_synced_block)
          \/ Torn
    /\ C18_Sequential

\* between two cycles, after a successful cycle and then a failed one
C18_Witness ==
    /\ pc = "loop"
    /\ h.prev.valid
    /\ h.prev.err = "export"
    /\ processed_blocks_count > 0
    /\ ckptText = CheckpointRecord(last_synced_block)

----------------------------------------------------------------------------
(* C19 -- Contiguous, gap-free coverage.  Every export call's first block   *)
(* is the currently persisted checkpoint + 1 (also for the first export     *)
(* after a restart), the range exported is last_synced_block + 1 ..         *)
(* target_block, so the exports followed by a checkpoint write are          *)
(* consecutive, and processed_blocks_count of a run equals                  *)
(* last_synced_block minus the checkpoint the run started from.             *)

\* the export call of the current cycle has returned, its write is pending
C19_ExportFromPersisted ==
    pc = "write" =>
        /\ TextIsInt(ckptText)
        /\ h.export.from = TextValue(ckptText) + 1

C19_RangeAndCount ==
    /\ pc = "write" =>
          /\ h.export.called
          /\ h.export.from = last_synced_block + 1
          /\ h.export.to = target_block
          /\ h.export.from <= h.export.to
    /\ pc \in LoopPcs \cup {"finally", "returned", "raised"} =>
          processed_blocks_count = last_synced_block - h.initial

C19_ContiguousCoverage == C19_ExportFromPersisted /\ C19_RangeAndCount

----------------------------------------------------------------------------
(* C20 -- Adapter lifecycle order.  In every stream() invocation, also one  *)
(* where writing the pid file fails, close() is invoked only after open()   *)
(* was invoked in the same invocation, open() is invoked at most once, and  *)
(* no head query or export happens before open() has returned successfully *)
(* or after close().                                                        *)

C20_CallsInsideOpenClose ==
    /\ h.opens <= 1
    /\ h.callsBeforeOpen = 0
    /\ h.callsAfterClose = 0
    /\ (h.queried \/ h.exported) => h.opened

C20_LifecycleOrder ==
    /\ h.closes > 0 => h.opens > 0
    /\ C20_CallsInsideOpenClose
====
